---- MODULE Spec2Model ----
(***************************************************************************)
(* The incremental update orchestrator of NBA_AI: src/database_updater.py  *)
(* and its variant src/on_load.py.  The persisted state is the Games table *)
(* and the Predictions table of one SQLite database; a pipeline run is one *)
(* call of update_database(season, predictor) of either module.            *)
(***************************************************************************)
EXTENDS Integers, Sequences, FiniteSets, TLC

VARIABLES
    games,              \* Games table: game_id -> row
    predictions,        \* Predictions table: set of <<game_id, predictor>>
    pc,                 \* per process: position inside update_database
    ip,                 \* per process: index of the next stage call of the body
    module,             \* per process: which module's update_database runs
    season,             \* per process: the season argument
    predictor,          \* per process: the predictor argument
    game_ids,           \* per process: local game_ids of the running stage
    pbp_data,           \* per process: the games local pbp_data holds logs of
    prior_states_dict,  \* per process: local prior_states_dict
    games_update_data,  \* per process: local games_update_data
    persisted,          \* per process: the rows the stage called last has saved to the
                        \* tables PbP_Logs, GameStates and Features, as <<table, game_id>>
    readied,            \* per process: the games whose flag the run's batch update set to 1
    fault,              \* per process: whether a step raised and which; for the batch
                        \* update, after how many of how many rows, and whether those
                        \* rows had changed a flag
    trace,              \* per process: call/return events of the stages of the run
    justified           \* game_id -> the flag was last written from prior states with nothing missing

vars == <<games, predictions, pc, ip, module, season, predictor, game_ids, pbp_data,
          prior_states_dict, games_update_data, persisted, readied, fault, trace,
          justified>>

-----------------------------------------------------------------------------
(* Bounds *)

NumGames == 2

-----------------------------------------------------------------------------
(* Data model *)

GameIds == 1..NumGames

Seasons == {"2023-2024", "2024-2025"}

Statuses == {"Not Started", "In Progress", "Completed"}

None == "<None>"

\* Values of the predictor argument: the default None, an empty name, two names.
PredictorArgs == {None, "", "X", "Y"}

\* The predictor arguments of the pipeline runs: no name, an empty name, one
\* name.  The second name is given to the prediction stage called on its own.
RunPredictorArgs == {None, "", "X"}

Modules == {"database_updater", "on_load"}

Procs == {"p1"}

NoFault == [raised |-> FALSE, at |-> "", rows |-> 0, of |-> 0, dirty |-> FALSE]

\* The schedule rows that schedule ingestion creates, by game_id.
Schedule ==
    <<[season |-> "2023-2024", season_type |-> "Pre Season",
       home_team |-> "BOS", away_team |-> "LAL", date_time_est |-> 1],
      [season |-> "2023-2024", season_type |-> "Regular Season",
       home_team |-> "NYK", away_team |-> "BOS", date_time_est |-> 2],
      [season |-> "2024-2025", season_type |-> "Regular Season",
       home_team |-> "BOS", away_team |-> "NYK", date_time_est |-> 1],
      [season |-> "2023-2024", season_type |-> "Post Season",
       home_team |-> "LAL", away_team |-> "NYK", date_time_est |-> 2]>>

NewGame(g) ==
    [season                  |-> Schedule[g].season,
     season_type             |-> Schedule[g].season_type,
     home_team               |-> Schedule[g].home_team,
     away_team               |-> Schedule[g].away_team,
     date_time_est           |-> Schedule[g].date_time_est,
     status                  |-> "Not Started",
     game_data_finalized     |-> 0,
     pre_game_data_finalized |-> 0]

\* The selected game_ids as a result list, in rowid order.
Rows(S) == SelectSeq([i \in 1..NumGames |-> i], LAMBDA g : g \in S)

Range(s) == {s[i] : i \in DOMAIN s}

-----------------------------------------------------------------------------
(* Stage Query Engine: database_updater.py *)

\* Faulty variant: the Post Season left out of the IN list.
season_type_filter_regular_only(row) == row.season_type \in {"Regular Season"}

season_type_filter(row) == row.season_type \in {"Regular Season", "Post Season"}

status_started(row) == row.status = "Completed" \/ row.status = "In Progress"

\* Faulty variant: only Completed games are selected.
get_games_needing_game_state_update_completed_only(s, gms) ==
    Rows({g \in DOMAIN gms : /\ gms[g].season = s
                             /\ season_type_filter(gms[g])
                             /\ gms[g].status = "Completed"
                             /\ gms[g].game_data_finalized = 0})

get_games_needing_game_state_update(s, gms) ==
    Rows({g \in DOMAIN gms : /\ gms[g].season = s
                             /\ season_type_filter(gms[g])
                             /\ status_started(gms[g])
                             /\ gms[g].game_data_finalized = 0})

\* Faulty variant: "<=" in place of "<" on date_time_est.
blocking_game_not_strict(s, g2, g1) ==
    /\ g2.season = s
    /\ g2.date_time_est <= g1.date_time_est
    /\ \/ g2.home_team = g1.home_team
       \/ g2.away_team = g1.home_team
       \/ g2.home_team = g1.away_team
       \/ g2.away_team = g1.away_team
    /\ g2.game_data_finalized = 0

\* WHERE clause of the NOT EXISTS subquery: g2 blocks g1.
blocking_game(s, g2, g1) ==
    /\ g2.season = s
    /\ g2.date_time_est < g1.date_time_est
    /\ \/ g2.home_team = g1.home_team
       \/ g2.away_team = g1.home_team
       \/ g2.home_team = g1.away_team
       \/ g2.away_team = g1.away_team
    /\ g2.game_data_finalized = 0

\* SQL UNION: the distinct rows of both result sets.
UNION_(a, b) == Rows(Range(a) \cup Range(b))

\* Faulty variant: the first SELECT without its season = ? condition.
incomplete_started_any_season(s, gms) ==
    Rows({g \in DOMAIN gms : /\ season_type_filter(gms[g])
                             /\ gms[g].pre_game_data_finalized = 0
                             /\ status_started(gms[g])})

\* Faulty variant: the first SELECT without its pre_game_data_finalized = 0 condition.
incomplete_started_any_flag(s, gms) ==
    Rows({g \in DOMAIN gms : /\ gms[g].season = s
                             /\ season_type_filter(gms[g])
                             /\ status_started(gms[g])})

incomplete_started(s, gms) ==
    Rows({g \in DOMAIN gms : /\ gms[g].season = s
                             /\ season_type_filter(gms[g])
                             /\ gms[g].pre_game_data_finalized = 0
                             /\ status_started(gms[g])})

\* Faulty variant: the second SELECT without its NOT EXISTS condition.
incomplete_not_started_unchecked(s, gms) ==
    Rows({g \in DOMAIN gms : /\ gms[g].season = s
                             /\ season_type_filter(gms[g])
                             /\ gms[g].pre_game_data_finalized = 0
                             /\ gms[g].status = "Not Started"})

incomplete_not_started(s, gms) ==
    Rows({g \in DOMAIN gms : /\ gms[g].season = s
                             /\ season_type_filter(gms[g])
                             /\ gms[g].pre_game_data_finalized = 0
                             /\ gms[g].status = "Not Started"
                             /\ ~ \E h \in DOMAIN gms : blocking_game(s, gms[h], gms[g])})

get_games_with_incomplete_pre_game_data(s, gms) ==
    UNION_(incomplete_started(s, gms), incomplete_not_started(s, gms))

\* Faulty variant: the join without its "AND p.predictor = ?" condition.
no_prediction_any_predictor(g, p, preds) == ~ \E r \in preds : r[1] = g

\* LEFT JOIN Predictions p ON g.game_id = p.game_id AND p.predictor = ?
\* ... WHERE p.game_id IS NULL
no_prediction(g, p, preds) == ~ \E r \in preds : r[1] = g /\ r[2] = p

\* Faulty variant: the query with a further condition g.status = 'Not Started'.
get_games_for_prediction_update_upcoming(s, p, gms, preds) ==
    Rows({g \in DOMAIN gms : /\ gms[g].season = s
                             /\ season_type_filter(gms[g])
                             /\ gms[g].pre_game_data_finalized = 1
                             /\ gms[g].status = "Not Started"
                             /\ no_prediction(g, p, preds)})

\* Faulty variant: the query without its pre_game_data_finalized = 1 condition.
get_games_for_prediction_update_any_flag(s, p, gms, preds) ==
    Rows({g \in DOMAIN gms : /\ gms[g].season = s
                             /\ season_type_filter(gms[g])
                             /\ no_prediction(g, p, preds)})

get_games_for_prediction_update(s, p, gms, preds) ==
    Rows({g \in DOMAIN gms : /\ gms[g].season = s
                             /\ season_type_filter(gms[g])
                             /\ gms[g].pre_game_data_finalized = 1
                             /\ no_prediction(g, p, preds)})

-----------------------------------------------------------------------------
(* Stage Query Engine: on_load.py (no season_type condition) *)

on_load_get_games_needing_game_state_update(s, gms) ==
    Rows({g \in DOMAIN gms : /\ gms[g].season = s
                             /\ status_started(gms[g])
                             /\ gms[g].game_data_finalized = 0})

on_load_get_games_with_incomplete_pre_game_data(s, gms) ==
    UNION_(Rows({g \in DOMAIN gms : /\ gms[g].season = s
                                    /\ gms[g].pre_game_data_finalized = 0
                                    /\ status_started(gms[g])}),
           Rows({g \in DOMAIN gms : /\ gms[g].season = s
                                    /\ gms[g].pre_game_data_finalized = 0
                                    /\ gms[g].status = "Not Started"
                                    /\ ~ \E h \in DOMAIN gms :
                                           blocking_game(s, gms[h], gms[g])}))

\* Returns the fetched rows themselves: a list of 1-tuples (game_id,).
on_load_get_games_for_prediction_update(s, p, gms, preds) ==
    LET ids == Rows({g \in DOMAIN gms : /\ gms[g].season = s
                                        /\ gms[g].pre_game_data_finalized = 1
                                        /\ no_prediction(g, p, preds)})
    IN  [i \in 1..Len(ids) |-> <<ids[i]>>]

-----------------------------------------------------------------------------
(* The two modules' queries, by module name *)

games_needing_game_state_update(m, s, gms) ==
    IF m = "database_updater"
    THEN get_games_needing_game_state_update(s, gms)
    ELSE on_load_get_games_needing_game_state_update(s, gms)

games_with_incomplete_pre_game_data(m, s, gms) ==
    IF m = "database_updater"
    THEN get_games_with_incomplete_pre_game_data(s, gms)
    ELSE on_load_get_games_with_incomplete_pre_game_data(s, gms)

games_for_prediction_update(m, s, p, gms, preds) ==
    IF m = "database_updater"
    THEN get_games_for_prediction_update(s, p, gms, preds)
    ELSE on_load_get_games_for_prediction_update(s, p, gms, preds)

\* The games a prediction work set names (on_load hands its rows on as they are).
named_games(m, ids) ==
    IF m = "database_updater" THEN Range(ids) ELSE {row[1] : row \in Range(ids)}

-----------------------------------------------------------------------------
(* Readiness Evaluator and Update Transaction Writer *)

\* The loop over pbp_data.items(): one game-state input per game with logs.
game_state_inputs(logs) == {g \in GameIds : g \in logs}

\* Faulty variant: "or" in place of "and".
pre_game_data_finalized_either(states) ==
    IF ~ states.missing_prior_states.home \/ ~ states.missing_prior_states.away
    THEN 1 ELSE 0

\* int(not states["missing_prior_states"]["home"]
\*     and not states["missing_prior_states"]["away"])
pre_game_data_finalized(states) ==
    IF ~ states.missing_prior_states.home /\ ~ states.missing_prior_states.away
    THEN 1 ELSE 0

\* Faulty variant: a pair for every game, with flag 0 for a game without entry.
build_games_update_data_every_game(d) ==
    LET keys == Rows(GameIds)
    IN  [i \in 1..Len(keys) |->
            <<IF keys[i] \in DOMAIN d THEN pre_game_data_finalized(d[keys[i]]) ELSE 0,
              keys[i]>>]

\* The loop over prior_states_dict.items(): one (flag, game_id) pair per key.
build_games_update_data(d) ==
    LET keys == Rows(DOMAIN d)
    IN  [i \in 1..Len(keys) |-> <<pre_game_data_finalized(d[keys[i]]), keys[i]>>]

\* Faulty variant: the UPDATE without its WHERE clause.
update_games_no_where(gms, row) ==
    [g \in DOMAIN gms |-> [gms[g] EXCEPT !.pre_game_data_finalized = row[1]]]

\* Faulty variant: "WHERE game_id <> ?".
update_games_where_not(gms, row) ==
    [g \in DOMAIN gms |->
        IF g # row[2]
        THEN [gms[g] EXCEPT !.pre_game_data_finalized = row[1]]
        ELSE gms[g]]

\* Faulty variant: the UPDATE also sets game_data_finalized.
update_games_both_flags(gms, row) ==
    [g \in DOMAIN gms |->
        IF g = row[2]
        THEN [gms[g] EXCEPT !.pre_game_data_finalized = row[1],
                            !.game_data_finalized = row[1]]
        ELSE gms[g]]

\* UPDATE Games SET pre_game_data_finalized = ? WHERE game_id = ?
update_games(gms, row) ==
    [g \in DOMAIN gms |->
        IF g = row[2]
        THEN [gms[g] EXCEPT !.pre_game_data_finalized = row[1]]
        ELSE gms[g]]

\* cursor.executemany over the first k rows of the batch.
RECURSIVE executemany(_, _, _)
executemany(gms, batch, k) ==
    IF k = 0 THEN gms
    ELSE update_games(executemany(gms, batch, k - 1), batch[k])

\* Faulty variant: every executed row is committed at once (autocommit).
connection_exit_autocommit(committed, working, raised) == working

\* Leaving "with sqlite3.connect(db_path) as conn": the transaction is
\* committed when the block ends normally and rolled back when it raises.
connection_exit(committed, working, raised) ==
    IF raised THEN committed ELSE working

-----------------------------------------------------------------------------
(* Collaborators *)

Rank(st) == CASE st = "Not Started" -> 0 [] st = "In Progress" -> 1 [] st = "Completed" -> 2

\* update_schedule(season): the statuses the games of the season may have afterwards.
ScheduleOutcomes(s, gms) ==
    {st \in [DOMAIN gms -> Statuses] :
        \A g \in DOMAIN gms :
            /\ gms[g].season # s => st[g] = gms[g].status
            /\ Rank(st[g]) >= Rank(gms[g].status)}

\* The table after update_schedule has set the statuses st.
set_status(gms, st) == [g \in DOMAIN gms |-> [gms[g] EXCEPT !.status = st[g]]]

\* save_game_states: the table after the games of final have been marked.
save_game_states(gms, final) ==
    [g \in DOMAIN gms |->
        IF g \in final THEN [gms[g] EXCEPT !.game_data_finalized = 1] ELSE gms[g]]

\* save_predictions: one record per predicted game for the predictor.
save_predictions(preds, saved, p) == preds \cup {<<g, p>> : g \in saved}

\* load_prior_states: an entry for some of the requested games, each telling
\* which side's prior state is missing.
PriorStates(ids) ==
    UNION {[keys -> [missing_prior_states : [home : BOOLEAN, away : BOOLEAN]]] :
              keys \in SUBSET Range(ids)}

-----------------------------------------------------------------------------
(* Pipeline Orchestrator *)

\* Faulty variant: "if predictor is not None:".
truthy_not_none(p) == p # None

\* "if predictor:"
truthy(p) == p # None /\ p # ""

\* Faulty variant: the pre-game-data stage called before the game-data stage.
update_database_swapped(p) ==
    <<"update_schedule", "update_pre_game_data", "update_game_data">>
        \o (IF p # None /\ p # "" THEN <<"update_prediction_data">> ELSE <<>>)

\* The body of update_database: the stage calls, in order.
update_database(p) ==
    <<"update_schedule", "update_game_data", "update_pre_game_data">>
        \o (IF truthy(p) THEN <<"update_prediction_data">> ELSE <<>>)

\* Faulty variant: the stage calls wrapped in "try: ... except Exception: pass".
uncaught_swallowed(raised) == FALSE

\* No try/except surrounds a stage call or a step of a stage: whatever a
\* step raises leaves the stage and update_database.
uncaught(raised) == raised

\* Bookkeeping: which games were last written from prior states with nothing
\* missing, after a batch built from d has been committed.
record_evidence(just, d) ==
    [g \in DOMAIN just |->
        IF g \in DOMAIN d
        THEN ~ d[g].missing_prior_states.home /\ ~ d[g].missing_prior_states.away
        ELSE just[g]]

Call(s) == [ev |-> "call", stage |-> s]

Ret(s) == [ev |-> "return", stage |-> s]

at_stage(r, s) ==
    /\ pc[r] = "run"
    /\ ip[r] \in 1..Len(update_database(predictor[r]))
    /\ update_database(predictor[r])[ip[r]] = s

\* The rows of one table, as entries of the record of a stage's writes.
RowsOf(table, S) == {<<table, g>> : g \in S}

\* No process of P has called update_database yet.
NotRunning(P) ==
    /\ pc = [r \in P |-> "idle"]
    /\ ip = [r \in P |-> 0]
    /\ module = [r \in P |-> "database_updater"]
    /\ season = [r \in P |-> "2023-2024"]
    /\ predictor = [r \in P |-> None]
    /\ game_ids = [r \in P |-> <<>>]
    /\ pbp_data = [r \in P |-> {}]
    /\ prior_states_dict = [r \in P |-> <<>>]
    /\ games_update_data = [r \in P |-> <<>>]
    /\ persisted = [r \in P |-> {}]
    /\ readied = [r \in P |-> {}]
    /\ fault = [r \in P |-> NoFault]
    /\ trace = [r \in P |-> <<>>]

Init ==
    /\ games = [g \in GameIds |-> NewGame(g)]
    /\ predictions = {}
    /\ NotRunning(Procs)
    /\ justified = [g \in GameIds |-> FALSE]

\* update_database(season, predictor) of module m is called.
Start(r, m, s, p) ==
    /\ pc[r] = "idle"
    /\ pc' = [pc EXCEPT ![r] = "run"]
    /\ ip' = [ip EXCEPT ![r] = 1]
    /\ module' = [module EXCEPT ![r] = m]
    /\ season' = [season EXCEPT ![r] = s]
    /\ predictor' = [predictor EXCEPT ![r] = p]
    /\ UNCHANGED <<games, predictions, game_ids, pbp_data, prior_states_dict,
                   games_update_data, persisted, readied, fault, trace, justified>>

\* The exception leaves the stage and update_database: the frames are gone.
Raise(r, step, k, n, dirty) ==
    /\ pc' = [pc EXCEPT ![r] = "failed"]
    /\ ip' = [ip EXCEPT ![r] = 0]
    /\ module' = [module EXCEPT ![r] = "database_updater"]
    /\ season' = [season EXCEPT ![r] = "2023-2024"]
    /\ predictor' = [predictor EXCEPT ![r] = None]
    /\ game_ids' = [game_ids EXCEPT ![r] = <<>>]
    /\ pbp_data' = [pbp_data EXCEPT ![r] = {}]
    /\ prior_states_dict' = [prior_states_dict EXCEPT ![r] = <<>>]
    /\ games_update_data' = [games_update_data EXCEPT ![r] = <<>>]
    /\ readied' = [readied EXCEPT ![r] = {}]
    /\ trace' = [trace EXCEPT ![r] = <<>>]
    /\ fault' = [fault EXCEPT ![r] =
                    [raised |-> TRUE, at |-> step, rows |-> k, of |-> n, dirty |-> dirty]]

\* STEP 1: update_schedule(season); when it raises, the statuses it had
\* already written stay.
UpdateSchedule(r) ==
    /\ at_stage(r, "update_schedule")
    /\ \E st \in ScheduleOutcomes(season[r], games) : games' = set_status(games, st)
    /\ \E raised \in BOOLEAN :
          IF uncaught(raised)
          THEN Raise(r, "update_schedule", 0, 0, FALSE)
          ELSE /\ ip' = [ip EXCEPT ![r] = @ + 1]
               /\ trace' = [trace EXCEPT ![r] =
                               @ \o <<Call("update_schedule"), Ret("update_schedule")>>]
               /\ fault' = [fault EXCEPT ![r].raised = raised]
               /\ UNCHANGED <<pc, module, season, predictor, game_ids, pbp_data,
                              prior_states_dict, games_update_data, readied>>
    /\ UNCHANGED <<predictions, persisted, justified>>

\* STEP 2, first statement: game_ids = get_games_needing_game_state_update(...)
GameDataQuery(r) ==
    /\ at_stage(r, "update_game_data")
    /\ persisted' = [persisted EXCEPT ![r] = {}]
    /\ \E raised \in BOOLEAN :
          IF uncaught(raised)
          THEN Raise(r, "get_games_needing_game_state_update", 0, 0, FALSE)
          ELSE /\ game_ids' = [game_ids EXCEPT ![r] =
                                  games_needing_game_state_update(module[r], season[r], games)]
               /\ pc' = [pc EXCEPT ![r] = "pbp"]
               /\ trace' = [trace EXCEPT ![r] = Append(@, Call("update_game_data"))]
               /\ fault' = [fault EXCEPT ![r].raised = raised]
               /\ UNCHANGED <<ip, module, season, predictor, pbp_data,
                              prior_states_dict, games_update_data, readied>>
    /\ UNCHANGED <<games, predictions, justified>>

\* STEP 2: lookup_basic_game_info, get_pbp and save_pbp.  get_pbp returns the
\* logs of some of the requested games; when a call raises, the logs already
\* saved stay.
GameDataFetch(r) ==
    /\ pc[r] = "pbp"
    /\ \E logs \in SUBSET Range(game_ids[r]), raised \in BOOLEAN :
          /\ persisted' = [persisted EXCEPT ![r] = @ \cup RowsOf("PbP_Logs", logs)]
          /\ IF uncaught(raised)
             THEN Raise(r, "save_pbp", 0, 0, FALSE)
             ELSE /\ pbp_data' = [pbp_data EXCEPT ![r] = logs]
                  /\ pc' = [pc EXCEPT ![r] = "game_states"]
                  /\ fault' = [fault EXCEPT ![r].raised = raised]
                  /\ UNCHANGED <<ip, module, season, predictor, game_ids,
                                 prior_states_dict, games_update_data, readied, trace>>
    /\ UNCHANGED <<games, predictions, justified>>

\* STEP 2: game_state_inputs from pbp_data.items(), create_game_states and
\* save_game_states, which marks the games whose state is conclusive.
GameDataSave(r) ==
    /\ pc[r] = "game_states"
    /\ \E done \in SUBSET game_state_inputs(pbp_data[r]), raised \in BOOLEAN :
          /\ ~ raised => done = game_state_inputs(pbp_data[r])
          /\ \E final \in SUBSET done : games' = save_game_states(games, final)
          /\ persisted' = [persisted EXCEPT ![r] = @ \cup RowsOf("GameStates", done)]
          /\ IF uncaught(raised)
             THEN Raise(r, "save_game_states", 0, 0, FALSE)
             ELSE /\ pc' = [pc EXCEPT ![r] = "run"]
                  /\ ip' = [ip EXCEPT ![r] = @ + 1]
                  /\ game_ids' = [game_ids EXCEPT ![r] = <<>>]
                  /\ pbp_data' = [pbp_data EXCEPT ![r] = {}]
                  /\ trace' = [trace EXCEPT ![r] = Append(@, Ret("update_game_data"))]
                  /\ fault' = [fault EXCEPT ![r].raised = raised]
                  /\ UNCHANGED <<module, season, predictor, prior_states_dict,
                                 games_update_data, readied>>
    /\ UNCHANGED <<predictions, justified>>

\* STEP 3, first statement: game_ids = get_games_with_incomplete_pre_game_data(...)
PreGameQuery(r) ==
    /\ at_stage(r, "update_pre_game_data")
    /\ persisted' = [persisted EXCEPT ![r] = {}]
    /\ \E raised \in BOOLEAN :
          IF uncaught(raised)
          THEN Raise(r, "get_games_with_incomplete_pre_game_data", 0, 0, FALSE)
          ELSE /\ game_ids' = [game_ids EXCEPT ![r] =
                                  games_with_incomplete_pre_game_data(module[r], season[r], games)]
               /\ pc' = [pc EXCEPT ![r] = "prior_states"]
               /\ trace' = [trace EXCEPT ![r] = Append(@, Call("update_pre_game_data"))]
               /\ fault' = [fault EXCEPT ![r].raised = raised]
               /\ UNCHANGED <<ip, module, season, predictor, pbp_data,
                              prior_states_dict, games_update_data, readied>>
    /\ UNCHANGED <<games, predictions, justified>>

\* STEP 3: prior states, feature sets (saved for every loaded game) and the
\* (flag, game_id) pairs.
PreGameLoad(r) ==
    /\ pc[r] = "prior_states"
    /\ \E d \in PriorStates(game_ids[r]), raised \in BOOLEAN :
          \E feats \in SUBSET DOMAIN d :
             /\ ~ raised => feats = DOMAIN d
             /\ persisted' = [persisted EXCEPT ![r] = @ \cup RowsOf("Features", feats)]
             /\ IF uncaught(raised)
                THEN Raise(r, "save_feature_sets", 0, 0, FALSE)
                ELSE /\ prior_states_dict' = [prior_states_dict EXCEPT ![r] = d]
                     /\ games_update_data' = [games_update_data EXCEPT ![r] =
                                                 build_games_update_data(d)]
                     /\ pc' = [pc EXCEPT ![r] = "write"]
                     /\ fault' = [fault EXCEPT ![r].raised = raised]
                     /\ UNCHANGED <<ip, module, season, predictor, game_ids,
                                    pbp_data, readied, trace>>
    /\ UNCHANGED <<games, predictions, justified>>

\* STEP 3, the batch update in one transaction; it may raise after k rows.
PreGameWrite(r) ==
    /\ pc[r] = "write"
    /\ LET batch == games_update_data[r]
           d     == prior_states_dict[r]
       IN  \E raised \in BOOLEAN, k \in 0..Len(batch) :
              /\ ~ raised => k = Len(batch)
              /\ games' = connection_exit(games, executemany(games, batch, k), raised)
              /\ IF uncaught(raised)
                 THEN /\ Raise(r, "executemany", k, Len(batch),
                               executemany(games, batch, k) # games)
                      /\ UNCHANGED justified
                 ELSE /\ pc' = [pc EXCEPT ![r] = "run"]
                      /\ ip' = [ip EXCEPT ![r] = @ + 1]
                      /\ game_ids' = [game_ids EXCEPT ![r] = <<>>]
                      /\ prior_states_dict' = [prior_states_dict EXCEPT ![r] = <<>>]
                      /\ games_update_data' = [games_update_data EXCEPT ![r] = <<>>]
                      /\ readied' = [readied EXCEPT ![r] =
                                        {batch[i][2] : i \in {j \in 1..k : batch[j][1] = 1}}]
                      /\ trace' = [trace EXCEPT ![r] = Append(@, Ret("update_pre_game_data"))]
                      /\ justified' = record_evidence(justified, d)
                      /\ fault' = [fault EXCEPT ![r].raised = raised]
                      /\ UNCHANGED <<module, season, predictor, pbp_data>>
    /\ UNCHANGED <<predictions, persisted>>

\* STEP 4, first statement: game_ids = get_games_for_prediction_update(...)
PredictionQuery(r) ==
    /\ at_stage(r, "update_prediction_data")
    /\ persisted' = [persisted EXCEPT ![r] = {}]
    /\ \E raised \in BOOLEAN :
          IF uncaught(raised)
          THEN Raise(r, "get_games_for_prediction_update", 0, 0, FALSE)
          ELSE /\ game_ids' = [game_ids EXCEPT ![r] =
                                  games_for_prediction_update(module[r], season[r],
                                                              predictor[r], games, predictions)]
               /\ pc' = [pc EXCEPT ![r] = "predict"]
               /\ trace' = [trace EXCEPT ![r] = Append(@, Call("update_prediction_data"))]
               /\ fault' = [fault EXCEPT ![r].raised = raised]
               /\ UNCHANGED <<ip, module, season, predictor, pbp_data,
                              prior_states_dict, games_update_data, readied>>
    /\ UNCHANGED <<games, predictions, justified>>

\* STEP 4: load_feature_sets, the predictor and save_predictions.
PredictionSave(r) ==
    /\ pc[r] = "predict"
    /\ \E saved \in SUBSET named_games(module[r], game_ids[r]), raised \in BOOLEAN :
          /\ predictions' = save_predictions(predictions, saved, predictor[r])
          /\ IF uncaught(raised)
             THEN Raise(r, "save_predictions", 0, 0, FALSE)
             ELSE /\ pc' = [pc EXCEPT ![r] = "run"]
                  /\ ip' = [ip EXCEPT ![r] = @ + 1]
                  /\ game_ids' = [game_ids EXCEPT ![r] = <<>>]
                  /\ readied' = [readied EXCEPT ![r] = {}]
                  /\ trace' = [trace EXCEPT ![r] = Append(@, Ret("update_prediction_data"))]
                  /\ fault' = [fault EXCEPT ![r].raised = raised]
                  /\ UNCHANGED <<module, season, predictor, pbp_data,
                                 prior_states_dict, games_update_data>>
    /\ UNCHANGED <<games, persisted, justified>>

\* update_database returns, or the exception leaves it.
Finish(r) ==
    /\ \/ pc[r] = "run" /\ ip[r] = Len(update_database(predictor[r])) + 1
       \/ pc[r] = "failed"
    /\ pc' = [pc EXCEPT ![r] = "idle"]
    /\ ip' = [ip EXCEPT ![r] = 0]
    /\ game_ids' = [game_ids EXCEPT ![r] = <<>>]
    /\ pbp_data' = [pbp_data EXCEPT ![r] = {}]
    /\ prior_states_dict' = [prior_states_dict EXCEPT ![r] = <<>>]
    /\ games_update_data' = [games_update_data EXCEPT ![r] = <<>>]
    /\ persisted' = [persisted EXCEPT ![r] = {}]
    /\ readied' = [readied EXCEPT ![r] = {}]
    /\ fault' = [fault EXCEPT ![r] = NoFault]
    /\ trace' = [trace EXCEPT ![r] = <<>>]
    /\ module' = [module EXCEPT ![r] = "database_updater"]
    /\ season' = [season EXCEPT ![r] = "2023-2024"]
    /\ predictor' = [predictor EXCEPT ![r] = None]
    /\ UNCHANGED <<games, predictions, justified>>

Next ==
    \E r \in Procs :
        \/ \E m \in Modules, s \in Seasons, p \in RunPredictorArgs : Start(r, m, s, p)
        \/ UpdateSchedule(r)
        \/ GameDataQuery(r)
        \/ GameDataFetch(r)
        \/ GameDataSave(r)
        \/ PreGameQuery(r)
        \/ PreGameLoad(r)
        \/ PreGameWrite(r)
        \/ PredictionQuery(r)
        \/ PredictionSave(r)
        \/ Finish(r)

Spec == Init /\ [][Next]_vars

-----------------------------------------------------------------------------
(* The stages called on their own: each stage function is a module-level   *)
(* entry point and is re-invoked as a whole; one step is one whole stage.   *)

locals == <<pc, ip, module, season, predictor, game_ids, pbp_data, prior_states_dict,
            games_update_data, persisted, readied, fault, trace>>

ScheduleStage(s) ==
    /\ \E st \in ScheduleOutcomes(s, games) : games' = set_status(games, st)
    /\ UNCHANGED <<predictions, justified, locals>>

GameDataStage(m, s) ==
    /\ LET ids == games_needing_game_state_update(m, s, games)
       IN  \E final \in SUBSET Range(ids) : games' = save_game_states(games, final)
    /\ UNCHANGED <<predictions, justified, locals>>

PreGameDataStage(m, s) ==
    /\ LET ids == games_with_incomplete_pre_game_data(m, s, games)
       IN  \E d \in PriorStates(ids) :
              LET batch == build_games_update_data(d)
              IN  /\ games' = connection_exit(games,
                                  executemany(games, batch, Len(batch)), FALSE)
                  /\ justified' = record_evidence(justified, d)
    /\ UNCHANGED <<predictions, locals>>

PredictionStage(m, s, p) ==
    /\ LET ids == games_for_prediction_update(m, s, p, games, predictions)
       IN  \E saved \in SUBSET named_games(m, ids) :
              predictions' = save_predictions(predictions, saved, p)
    /\ UNCHANGED <<games, justified, locals>>

NextStages ==
    \/ \E s \in Seasons : ScheduleStage(s)
    \/ \E m \in Modules, s \in Seasons : GameDataStage(m, s)
    \/ \E m \in Modules, s \in Seasons : PreGameDataStage(m, s)
    \/ \E m \in Modules, s \in Seasons, p \in {q \in PredictorArgs : truthy(q)} :
          PredictionStage(m, s, p)

SpecStages == Init /\ [][NextStages]_vars

-----------------------------------------------------------------------------
(* The stages called on their own over schedules whose opening games are of *)
(* any season type: the seasons then hold Regular Season and Post Season    *)
(* games only, or other games too.                                          *)

SeasonTypes == {"Pre Season", "Regular Season", "Post Season"}

InitVariants ==
    /\ \E ty \in SeasonTypes :
          games = [g \in GameIds |->
                      IF Schedule[g].season_type = "Pre Season"
                      THEN [NewGame(g) EXCEPT !.season_type = ty]
                      ELSE NewGame(g)]
    /\ predictions = {}
    /\ NotRunning(Procs)
    /\ justified = [g \in GameIds |-> FALSE]

SpecVariants == InitVariants /\ [][NextStages]_vars

-----------------------------------------------------------------------------
(* Two runs for the same season that overlap: update_database is called by  *)
(* a second process while the first call has not returned.                  *)

OverlapProcs == {"p1", "p2"}

OverlapSeason == "2023-2024"

InitOverlap ==
    /\ games = [g \in GameIds |-> NewGame(g)]
    /\ predictions = {}
    /\ NotRunning(OverlapProcs)
    /\ justified = [g \in GameIds |-> FALSE]

NextOverlap ==
    \E r \in OverlapProcs :
        \/ \E m \in Modules : Start(r, m, OverlapSeason, None)
        \/ UpdateSchedule(r)
        \/ GameDataQuery(r)
        \/ GameDataFetch(r)
        \/ GameDataSave(r)
        \/ PreGameQuery(r)
        \/ PreGameLoad(r)
        \/ PreGameWrite(r)
        \/ Finish(r)

SpecOverlap == InitOverlap /\ [][NextOverlap]_vars

-----------------------------------------------------------------------------
(* Vocabulary of the properties, stated on the stored rows themselves *)

PredictorNames == {"X", "Y"}

TeamsOf(g) == {games[g].home_team, games[g].away_team}

\* h is a game of g's season, scheduled strictly earlier, with one of g's teams.
Predecessor(h, g) ==
    /\ games[h].season = games[g].season
    /\ games[h].date_time_est < games[g].date_time_est
    /\ TeamsOf(h) \cap TeamsOf(g) # {}

Blocked(g) == \E h \in GameIds : Predecessor(h, g) /\ games[h].game_data_finalized = 0

NotStarted(g) == games[g].status = "Not Started"

Started(g) == games[g].status \in {"Completed", "In Progress"}

RegularOrPost(g) == games[g].season_type \in {"Regular Season", "Post Season"}

PreGameSet(s) == Range(get_games_with_incomplete_pre_game_data(s, games))

OnLoadPreGameSet(s) == Range(on_load_get_games_with_incomplete_pre_game_data(s, games))

NoDuplicates(seq) == \A i, j \in DOMAIN seq : seq[i] = seq[j] => i = j

-----------------------------------------------------------------------------
(* C1 *)

\* C1 as stated: in both modules, a Not Started game with an unfinalized
\* predecessor is outside the pre-game work set of its season, and a Not
\* Started game with pre_game_data_finalized = 0 and no such predecessor is
\* in it, whatever its season_type.
C1_AsStated ==
    \A g \in GameIds :
        NotStarted(g) =>
            /\ Blocked(g) => /\ g \notin PreGameSet(games[g].season)
                             /\ g \notin OnLoadPreGameSet(games[g].season)
            /\ (~ Blocked(g) /\ games[g].pre_game_data_finalized = 0) =>
                             /\ g \in PreGameSet(games[g].season)
                             /\ g \in OnLoadPreGameSet(games[g].season)

\* C1: a Not Started game with an unfinalized predecessor is in neither
\* module's pre-game work set; once no such predecessor remains and its flag is
\* still 0, on_load.py returns it, and database_updater.py returns it exactly
\* when its season_type is Regular Season or Post Season.
C1_DependencyClosure ==
    \A s \in Seasons :
        LET ids    == PreGameSet(s)
            onload == OnLoadPreGameSet(s)
        IN  \A g \in GameIds :
                (games[g].season = s /\ NotStarted(g)) =>
                    /\ Blocked(g) => (g \notin ids /\ g \notin onload)
                    /\ (~ Blocked(g) /\ games[g].pre_game_data_finalized = 0) =>
                            /\ g \in ids <=> RegularOrPost(g)
                            /\ g \in onload

\* A Not Started Regular Season game whose only predecessor has been
\* finalized is returned by both modules.
C1_Witness ==
    \E g, h \in GameIds :
        /\ NotStarted(g) /\ RegularOrPost(g)
        /\ games[g].pre_game_data_finalized = 0
        /\ Predecessor(h, g) /\ games[h].game_data_finalized = 1
        /\ ~ Blocked(g)
        /\ g \in PreGameSet(games[g].season)
        /\ g \in OnLoadPreGameSet(games[g].season)

-----------------------------------------------------------------------------
(* C2 *)

\* C2: for every season, database_updater's pre-game work set holds exactly
\* the Regular Season or Post Season games of the season with
\* pre_game_data_finalized = 0 that are started, or Not Started and not
\* blocked; each identifier appears once.
C2_PreGameWorkSetExact ==
    \A s \in Seasons :
        LET result == get_games_with_incomplete_pre_game_data(s, games)
        IN  /\ Range(result) =
                  {g \in GameIds : /\ games[g].season = s
                                   /\ RegularOrPost(g)
                                   /\ games[g].pre_game_data_finalized = 0
                                   /\ \/ Started(g)
                                      \/ NotStarted(g) /\ ~ Blocked(g)}
            /\ NoDuplicates(result)

\* The work set holds a game while a started game of the same season with
\* flag 0 (a Pre Season game) stays outside it.
C2_Witness ==
    \E g, h \in GameIds :
        /\ g \in PreGameSet(games[g].season)
        /\ games[h].season = games[g].season
        /\ Started(h) /\ games[h].pre_game_data_finalized = 0
        /\ h \notin PreGameSet(games[g].season)

-----------------------------------------------------------------------------
(* C3 *)

GameDataSet(s) == Range(get_games_needing_game_state_update(s, games))

\* C3: for every season, database_updater's game-data work set holds exactly
\* the Regular Season or Post Season games of the season that are Completed or
\* In Progress with game_data_finalized false; no Not Started game is in it.
C3_GameDataWorkSetExact ==
    \A s \in Seasons :
        /\ GameDataSet(s) =
              {g \in GameIds : /\ games[g].season = s
                               /\ RegularOrPost(g)
                               /\ Started(g)
                               /\ games[g].game_data_finalized = 0}
        /\ \A g \in GameIds : NotStarted(g) => g \notin GameDataSet(s)

\* A started game is in the set while a Not Started game of the season whose
\* pre-game flag is already 1 is not.
C3_Witness ==
    \E g, h \in GameIds :
        /\ g \in GameDataSet(games[g].season)
        /\ games[h].season = games[g].season
        /\ NotStarted(h) /\ games[h].pre_game_data_finalized = 1
        /\ h \notin GameDataSet(games[g].season)

-----------------------------------------------------------------------------
(* C4 *)

PredictionSet(s, p) == Range(get_games_for_prediction_update(s, p, games, predictions))

\* on_load returns rows: a game is named by the 1-tuple holding its id.
OnLoadPredictionRows(s, p) ==
    Range(on_load_get_games_for_prediction_update(s, p, games, predictions))

NeedsPrediction(g, p) ==
    games[g].pre_game_data_finalized = 1 /\ <<g, p>> \notin predictions

-----------------------------------------------------------------------------
(* C5 *)

Missing(r, g) == prior_states_dict[r][g].missing_prior_states

PairsOf(r, g) == {i \in DOMAIN games_update_data[r] : games_update_data[r][i][2] = g}

FlagOf(r, g) == games_update_data[r][CHOOSE i \in PairsOf(r, g) : TRUE][1]

\* C5: once update_pre_game_data has built games_update_data, every game of
\* the loaded prior-state map has one pair, whose flag is 1 when neither
\* prior state is missing and 0 in the three other combinations.
C5_ReadinessEvaluation ==
    \A r \in Procs :
        pc[r] = "write" =>
            \A g \in DOMAIN prior_states_dict[r] :
                /\ Cardinality(PairsOf(r, g)) = 1
                /\ (~ Missing(r, g).home /\ ~ Missing(r, g).away) => FlagOf(r, g) = 1
                /\ (~ Missing(r, g).home /\ Missing(r, g).away) => FlagOf(r, g) = 0
                /\ (Missing(r, g).home /\ ~ Missing(r, g).away) => FlagOf(r, g) = 0
                /\ (Missing(r, g).home /\ Missing(r, g).away) => FlagOf(r, g) = 0

\* A batch built from a map with one complete game and one game whose away
\* prior state alone is missing.
C5_Witness ==
    \E r \in Procs : \E g, h \in DOMAIN prior_states_dict[r] :
        /\ pc[r] = "write"
        /\ ~ Missing(r, g).home /\ ~ Missing(r, g).away /\ FlagOf(r, g) = 1
        /\ ~ Missing(r, h).home /\ Missing(r, h).away /\ FlagOf(r, h) = 0

-----------------------------------------------------------------------------
(* C6 *)

Flag(g) == games[g].pre_game_data_finalized

\* C6 (I1): every game whose flag is 1 got it from the batch update of the
\* pre-game stage, from a loaded prior state with neither side missing, and
\* no other step turns a flag from 0 to 1.
C6_OnlyReadinessFinalizes ==
    /\ [](\A g \in GameIds : Flag(g) = 1 => justified[g])
    /\ [][\A g \in GameIds :
            (Flag(g) = 0 /\ Flag(g)' = 1) =>
                \E r \in Procs :
                    /\ pc[r] = "write"
                    /\ g \in DOMAIN prior_states_dict[r]
                    /\ ~ Missing(r, g).home
                    /\ ~ Missing(r, g).away]_vars

\* The pre-game stage has returned leaving one game finalized and another,
\* whose prior state was missing, not.
C6_Witness ==
    \E r \in Procs : \E g, h \in GameIds :
        /\ pc[r] = "run"
        /\ trace[r] # <<>>
        /\ trace[r][Len(trace[r])] = Ret("update_pre_game_data")
        /\ Flag(g) = 1 /\ justified[g]
        /\ Flag(h) = 0 /\ h \in OnLoadPreGameSet(games[h].season)

-----------------------------------------------------------------------------
(* C7 *)

\* The table with every pair of the batch applied.
AllApplied(gms, batch) ==
    [g \in DOMAIN gms |->
        IF \E i \in DOMAIN batch : batch[i][2] = g
        THEN [gms[g] EXCEPT !.pre_game_data_finalized =
                  batch[CHOOSE i \in DOMAIN batch : batch[i][2] = g][1]]
        ELSE gms[g]]

\* C7: the batch update leaves the table with all N pairs applied when no
\* fault occurs, and exactly as it was when a fault occurs after k rows.
C7_AtomicBatch ==
    [][\A r \in Procs :
          (pc[r] = "write" /\ pc'[r] # "write") =>
              /\ fault'[r].raised => games' = games
              /\ ~ fault'[r].raised => games' = AllApplied(games, games_update_data[r])]_vars

\* A batch of two rows or more faulted after some but not all of its rows,
\* and the executed rows had changed a flag.
C7_Witness ==
    \E r \in Procs :
        /\ pc[r] = "failed"
        /\ fault[r].raised
        /\ fault[r].of >= 2
        /\ fault[r].rows >= 1
        /\ fault[r].rows < fault[r].of
        /\ fault[r].dirty

-----------------------------------------------------------------------------
(* C8 *)

\* C8 (I2): with runs that do not overlap, no step sets a flag back from 1
\* to 0.
C8_NoRegression ==
    [][\A g \in GameIds : Flag(g) = 1 => Flag(g)' = 1]_vars

\* A run is about to write its batch while a game of its season, finalized
\* by an earlier run, is started.
C8_Witness ==
    \E r \in Procs : \E g \in GameIds :
        /\ pc[r] = "write"
        /\ games[g].season = season[r]
        /\ RegularOrPost(g) /\ Started(g)
        /\ Flag(g) = 1

-----------------------------------------------------------------------------
(* C9 *)

IsPrefix(a, b) == Len(a) <= Len(b) /\ \A i \in DOMAIN a : a[i] = b[i]

StageOrder ==
    <<Call("update_schedule"), Ret("update_schedule"),
      Call("update_game_data"), Ret("update_game_data"),
      Call("update_pre_game_data"), Ret("update_pre_game_data"),
      Call("update_prediction_data"), Ret("update_prediction_data")>>

\* C9: the calls and returns of a run form a prefix of: schedule sync,
\* game-data stage, pre-game-data stage, prediction stage, each called after
\* the previous one returned and at most once.
C9_StageOrder == \A r \in Procs : IsPrefix(trace[r], StageOrder)

\* A run in which all four stages have been called and have returned.
C9_Witness == \E r \in Procs : trace[r] = StageOrder

-----------------------------------------------------------------------------
(* C10 *)

Returned(r) == pc[r] = "run" /\ ENABLED Finish(r)

PredictionStageRan(r) == \E i \in DOMAIN trace[r] : trace[r][i] = Call("update_prediction_data")

\* C10: the prediction stage is called only in runs given a predictor name,
\* and in every such run that returns; a run without one returns right after
\* the pre-game-data stage, and none of its steps changes the prediction store.
C10_PredictionOnlyWithPredictor ==
    /\ [](\A r \in Procs :
            /\ PredictionStageRan(r) => predictor[r] \in PredictorNames
            /\ Returned(r) =>
                 /\ PredictionStageRan(r) <=> predictor[r] \in PredictorNames
                 /\ predictor[r] \notin PredictorNames =>
                        trace[r][Len(trace[r])] = Ret("update_pre_game_data"))
    /\ [][\A r \in Procs :
            (pc[r] # "idle" /\ predictor[r] \notin PredictorNames) =>
                predictions' = predictions]_vars

\* A run without predictor has returned after the pre-game-data stage while
\* a finalized game of its season still has no prediction.
C10_Witness ==
    \E r \in Procs : \E g \in GameIds :
        /\ Returned(r)
        /\ predictor[r] = None
        /\ trace[r][Len(trace[r])] = Ret("update_pre_game_data")
        /\ games[g].season = season[r]
        /\ Flag(g) = 1
        /\ \A p \in PredictorNames : <<g, p>> \notin predictions

-----------------------------------------------------------------------------
(* C11 *)

QueryNames ==
    {"get_games_needing_game_state_update",
     "get_games_with_incomplete_pre_game_data",
     "get_games_for_prediction_update"}

\* The step is a work-set query of process r, whether it returns or raises.
QueryStep(r) ==
    /\ pc[r] = "run"
    /\ \/ pc'[r] \in {"pbp", "prior_states", "predict"}
       \/ pc'[r] = "failed" /\ fault'[r].at \in QueryNames

\* Every field of every game but pre_game_data_finalized is as it was.
OtherFieldsKept ==
    \A g \in GameIds :
        games'[g] = [games[g] EXCEPT
                        !.pre_game_data_finalized = games'[g].pre_game_data_finalized]

\* C11: a work-set query leaves every Game field and every Prediction record
\* as it was; a step that changes some game's pre_game_data_finalized is the
\* batch update of update_pre_game_data, and the batch update changes no other
\* field of any game and no Prediction record.
C11_QueriesReadBatchWritesFlag ==
    [][/\ \A r \in Procs :
            QueryStep(r) => (games' = games /\ predictions' = predictions)
       /\ (\E g \in GameIds : Flag(g)' # Flag(g)) => \E r \in Procs : pc[r] = "write"
       /\ \A r \in Procs :
            pc[r] = "write" => (OtherFieldsKept /\ predictions' = predictions)]_vars

\* The batch update has just set a flag in a table where other fields have
\* been written too: a game is finalized by the game-data stage and a
\* prediction record exists.
C11_Witness ==
    \E r \in Procs :
        /\ pc[r] = "run"
        /\ trace[r] # <<>>
        /\ trace[r][Len(trace[r])] = Ret("update_pre_game_data")
        /\ readied[r] # {}
        /\ \E g \in GameIds : games[g].game_data_finalized = 1
        /\ predictions # {}

-----------------------------------------------------------------------------
(* C13 *)

\* The games module m selects from: database_updater.py keeps the Regular
\* Season and Post Season games, on_load.py every game.
Selects(m, g) == m = "database_updater" => RegularOrPost(g)

\* The work sets of the three stages, from the stored rows.
GameDataWork(m, s) ==
    {g \in GameIds : /\ games[g].season = s /\ Selects(m, g)
                     /\ Started(g) /\ games[g].game_data_finalized = 0}

PreGameWork(m, s) ==
    {g \in GameIds : /\ games[g].season = s /\ Selects(m, g)
                     /\ Flag(g) = 0
                     /\ (Started(g) \/ (NotStarted(g) /\ ~ Blocked(g)))}

PredictionWork(m, s, p) ==
    {g \in GameIds : /\ games[g].season = s /\ Selects(m, g)
                     /\ Flag(g) = 1 /\ <<g, p>> \notin predictions}

InGameData(r) == at_stage(r, "update_game_data") \/ pc[r] \in {"pbp", "game_states"}

InPreGame(r) == at_stage(r, "update_pre_game_data") \/ pc[r] \in {"prior_states", "write"}

InPrediction(r) == at_stage(r, "update_prediction_data") \/ pc[r] = "predict"

\* Process r is in a stage whose work set is empty.
EmptyStage(r) ==
    \/ InGameData(r) /\ GameDataWork(module[r], season[r]) = {}
    \/ InPreGame(r) /\ PreGameWork(module[r], season[r]) = {}
    \/ InPrediction(r) /\ PredictionWork(module[r], season[r], predictor[r]) = {}

\* The next step of the stage of r, taken without raising.
Proceeds(r) ==
    /\ \/ GameDataQuery(r) \/ GameDataFetch(r) \/ GameDataSave(r)
       \/ PreGameQuery(r) \/ PreGameLoad(r) \/ PreGameWrite(r)
       \/ PredictionQuery(r) \/ PredictionSave(r)
    /\ pc'[r] # "failed"

\* C13: while a process is in a stage whose work set is empty, each step of
\* the stage can be taken without raising, and every step leaves the Games
\* rows and the Prediction records as they were and saves no play-by-play,
\* game state or feature set.
C13_EmptyWorkSetNoOp ==
    /\ [](\A r \in Procs : EmptyStage(r) => ENABLED Proceeds(r))
    /\ [][\A r \in Procs :
            EmptyStage(r) => /\ games' = games
                             /\ predictions' = predictions
                             /\ persisted'[r] = {}]_vars

\* The pre-game stage of database_updater.py has returned from an empty work
\* set while a started game of the season (a Pre Season game) has flag 0.
C13_Witness ==
    \E r \in Procs : \E g \in GameIds :
        /\ pc[r] = "run"
        /\ trace[r] # <<>>
        /\ trace[r][Len(trace[r])] = Ret("update_pre_game_data")
        /\ module[r] = "database_updater"
        /\ PreGameWork(module[r], season[r]) = {}
        /\ readied[r] = {}
        /\ games[g].season = season[r] /\ Started(g) /\ Flag(g) = 0

-----------------------------------------------------------------------------
(* C14 *)

\* The games the work-set query of module m returns now, per stage.
GameDataIds(m, s) == Range(games_needing_game_state_update(m, s, games))

PreGameIds(m, s) == Range(games_with_incomplete_pre_game_data(m, s, games))

PredictionIds(m, s, p) ==
    named_games(m, games_for_prediction_update(m, s, p, games, predictions))

\* C14: the work set a stage's query returns right after the stage has run
\* is a subset of the one it returned right before, for the game-data, the
\* pre-game-data and the prediction stage of either module. (The first two
\* queries read Games only and the prediction stage writes Predictions only,
\* so a step that leaves the table a stage writes as it was leaves that
\* stage's work set as it was.)
C14_PendingSetShrinks ==
    [][\A m \in Modules, s \in Seasons :
          /\ \/ UNCHANGED games
             \/ /\ GameDataStage(m, s) =>
                       GameDataIds(m, s)' \subseteq GameDataIds(m, s)
                /\ PreGameDataStage(m, s) =>
                       PreGameIds(m, s)' \subseteq PreGameIds(m, s)
          /\ \/ UNCHANGED predictions
             \/ \A p \in PredictorNames :
                   PredictionStage(m, s, p) =>
                       PredictionIds(m, s, p)' \subseteq PredictionIds(m, s, p)]_vars

\* Stages have run and left part of their work pending: a game is finalized
\* by the game-data stage, a game has flag 1 and a prediction while another
\* game of its season is still in the pre-game work set.
C14_Witness ==
    \E g, h \in GameIds :
        /\ g # h
        /\ games[h].season = games[g].season
        /\ Flag(g) = 1
        /\ <<g, "X">> \in predictions
        /\ games[g].game_data_finalized = 1
        /\ h \in PreGameIds("database_updater", games[g].season)
        /\ PredictionIds("database_updater", games[g].season, "X") = {}

-----------------------------------------------------------------------------
(* C15 *)

\* Nothing stored is undone by the step: no status or game_data_finalized
\* goes back, no flag changes, no Prediction record disappears.
NothingUndone ==
    /\ \A g \in GameIds :
          /\ Flag(g)' = Flag(g)
          /\ games'[g].game_data_finalized >= games[g].game_data_finalized
          /\ Rank(games'[g].status) >= Rank(games[g].status)
    /\ predictions \subseteq predictions'

\* C15: a step that raises ends the run as failed; the failing step undoes
\* nothing stored and changes no flag, and the rows the stage had saved before
\* stay saved; from the failed run the only step is the exception leaving
\* update_database, with the Games rows and the Prediction records as they
\* are: no later step or stage runs and nothing is retried.
C15_FailureIsFatal ==
    [][\A r \in Procs :
          /\ (fault'[r].raised /\ ~ fault[r].raised) => pc'[r] = "failed"
          /\ (pc'[r] = "failed" /\ pc[r] # "failed") =>
                /\ NothingUndone
                /\ pc[r] # "run" => persisted[r] \subseteq persisted'[r]
          /\ pc[r] = "failed" =>
                /\ pc'[r] = "idle"
                /\ games' = games
                /\ predictions' = predictions]_vars

\* The game-data stage failed at create_game_states / save_game_states after
\* it had saved the play-by-play of a game, which has no game state and is
\* not finalized.
C15_Witness ==
    \E r \in Procs : \E g \in GameIds :
        /\ pc[r] = "failed"
        /\ fault[r].at = "save_game_states"
        /\ <<"PbP_Logs", g>> \in persisted[r]
        /\ <<"GameStates", g>> \notin persisted[r]
        /\ games[g].game_data_finalized = 0

-----------------------------------------------------------------------------
(* C16 *)

\* C16: with two runs for the same season that overlap, whose steps
\* interleave in any order, no step lowers a game's pre_game_data_finalized
\* from 1 to 0.
C16_NoRegressionWhenOverlapping ==
    [][\A g \in GameIds : Flag(g)' >= Flag(g)]_vars

-----------------------------------------------------------------------------
(* C17 *)

AllRegularOrPost(s) == \A g \in GameIds : games[g].season = s => RegularOrPost(g)

\* The games that the rows (game_id,) returned by on_load.py name.
GamesOfRows(rows) == {rows[i][1] : i \in DOMAIN rows}

\* The Games tables a stage of module m can leave behind.
GameDataOutcomes(m, s) ==
    {save_game_states(games, final) :
        final \in SUBSET Range(games_needing_game_state_update(m, s, games))}

PreGameOutcomes(m, s) ==
    {executemany(games, build_games_update_data(d), Len(build_games_update_data(d))) :
        d \in PriorStates(games_with_incomplete_pre_game_data(m, s, games))}

-----------------------------------------------------------------------------
(* C18 *)

\* h keeps the Not Started game g, which the pre-game query of
\* database_updater.py would otherwise return, out of the pre-game work set.
BlocksCandidate(h, g) ==
    /\ NotStarted(g) /\ RegularOrPost(g) /\ Flag(g) = 0
    /\ blocking_game(games[g].season, games[h], games[g])

\* C18: every game that blocks a Not Started game from the pre-game work set
\* is, once it is In Progress or Completed, in the game-data work set of the
\* season, in database_updater.py as in on_load.py.
C18_BlockersAreProcessed ==
    \A g, h \in GameIds :
        (BlocksCandidate(h, g) /\ Started(h)) =>
            /\ h \in Range(get_games_needing_game_state_update(games[g].season, games))
            /\ h \in Range(on_load_get_games_needing_game_state_update(games[g].season, games))

-----------------------------------------------------------------------------
(* C19 *)

\* The game ids of the pairs of the batch of process r.
BatchIds(r) == {games_update_data[r][i][2] : i \in DOMAIN games_update_data[r]}

\* C19: the batch built by update_pre_game_data holds one pair for each game
\* of the loaded prior-state map and no other pair, and the batch update
\* leaves the flag of every game outside the map as it was, a game of the
\* pre-game work set without entry included.
C19_BatchIsTheLoadedMap ==
    /\ [](\A r \in Procs :
            pc[r] = "write" =>
                /\ BatchIds(r) = DOMAIN prior_states_dict[r]
                /\ Len(games_update_data[r]) = Cardinality(DOMAIN prior_states_dict[r]))
    /\ [][\A r \in Procs :
            pc[r] = "write" =>
                \A g \in GameIds \ DOMAIN prior_states_dict[r] : Flag(g)' = Flag(g)]_vars

\* A batch built from a map that has an entry for one game of the work set
\* and none for another.
C19_Witness ==
    \E r \in Procs : \E g, h \in Range(game_ids[r]) :
        /\ pc[r] = "write"
        /\ g \in DOMAIN prior_states_dict[r]
        /\ g \in BatchIds(r)
        /\ h \notin DOMAIN prior_states_dict[r]
        /\ h \notin BatchIds(r)

-----------------------------------------------------------------------------
(* C20 *)

\* C20: when the prediction stage of a run has computed its work set, the
\* set names every game whose flag the pre-game-data stage of the same run
\* set to 1 and that has no prediction record for the run's predictor; in
\* database_updater.py, every such Regular Season or Post Season game.
C20_HandOffToPrediction ==
    \A r \in Procs :
        pc[r] = "predict" =>
            \A g \in readied[r] :
                (/\ Selects(module[r], g)
                 /\ games[g].season = season[r]
                 /\ <<g, predictor[r]>> \notin predictions)
                    => g \in named_games(module[r], game_ids[r])

\* The prediction stage of a run of database_updater.py with predictor "X"
\* has computed a work set that holds a game finalized by this run, while a
\* game finalized earlier has its prediction already.
C20_Witness ==
    \E r \in Procs : \E g, h \in GameIds :
        /\ pc[r] = "predict"
        /\ module[r] = "database_updater"
        /\ predictor[r] = "X"
        /\ g \in readied[r]
        /\ RegularOrPost(g)
        /\ g \in Range(game_ids[r])
        /\ h \notin readied[r]
        /\ Flag(h) = 1
        /\ <<h, "X">> \in predictions

-----------------------------------------------------------------------------
(* C21 *)

\* The pipeline runs over a table that holds games of both seasons: the
\* second game of the schedule is played in the season 2024-2025.
InitSeasons ==
    /\ games = [g \in GameIds |->
                   IF g = 2 THEN [NewGame(g) EXCEPT !.season = "2024-2025"]
                   ELSE NewGame(g)]
    /\ predictions = {}
    /\ NotRunning(Procs)
    /\ justified = [g \in GameIds |-> FALSE]

SpecSeasons == InitSeasons /\ [][Next]_vars

\* The games of season s.
GamesOf(s) == {g \in GameIds : games[g].season = s}

\* The games named by the work set the run r holds while one of its stages
\* is at work.
WorkSet(r) ==
    IF pc[r] = "predict" THEN named_games(module[r], game_ids[r])
    ELSE Range(game_ids[r])

\* The games named by the (flag, game_id) pairs of the run's batch.
BatchRows(r) == {games_update_data[r][i][2] : i \in DOMAIN games_update_data[r]}

\* C21: a pipeline run for season S changes pre_game_data_finalized of no
\* game of another season; each work set it computes (game-data,
\* pre-game-data, prediction) names games of S only, and so does every pair
\* of the batch the pre-game-data stage writes.
C21_SeasonIsolation ==
    /\ [](\A r \in Procs :
            /\ pc[r] \in {"pbp", "game_states", "prior_states", "write", "predict"}
                  => WorkSet(r) \subseteq GamesOf(season[r])
            /\ pc[r] = "write" => BatchRows(r) \subseteq GamesOf(season[r]))
    /\ [][\A r \in Procs : \A g \in GameIds :
            (pc[r] # "idle" /\ games[g].season # season[r]) => Flag(g)' = Flag(g)]_vars

\* A run for one season has just written the flag of a game of its season
\* to 1 while a started game of the other season, of a season type the
\* run's module selects, still has its flag at 0.
C21_Witness ==
    \E r \in Procs : \E g, h \in GameIds :
        /\ pc[r] = "run"
        /\ g \in readied[r]
        /\ games[g].season = season[r]
        /\ games[h].season # season[r]
        /\ Selects(module[r], h)
        /\ Started(h)
        /\ Flag(h) = 0
        /\ games[h].game_data_finalized = 0

====
